---- MODULE Spec2Model ----
(***************************************************************************)
(* Orchestration engine of the backlink indexer:                           *)
(*   - the Celery retry chain of backlink_indexer/queue/celery_queue.py    *)
(*     (process_single_url, its self.retry re-delivery, retry_failed_url), *)
(*   - MultiLayerIndexingStrategy of core/enhanced_coordinator.py,         *)
(*   - BacklinkIndexingCoordinator of core/coordinator.py.                 *)
(* Each part has its own specification over its own variables; the other   *)
(* parts' variables stay at their initial values.                          *)
(***************************************************************************)
EXTENDS Integers, Sequences, FiniteSets, Bags, TLC

VARIABLES
    pending,      \* bag of task messages held by the broker
    active,       \* bag of task executions held by workers
    failed_urls,  \* Redis set failed_urls:<day>
    sent,         \* number of task messages sent so far
    last,         \* what the most recently completed handler did
    scheduled,    \* attempt number -> number of retry_failed_url messages sent
    attempts,     \* number of processing attempts begun by retry_failed_url
    outcomes,     \* outcomes of the processing attempts finished so far
    delays,       \* delays that preceded the retry attempts begun so far
    urls,             \* the URL list given to execute_layered_strategy
    pc,               \* the layer execute_layered_strategy is about to run
    remaining_urls,   \* URLs still tracked through the layers
    strategy_results, \* the result dictionary being built
    config,           \* the IndexingConfig of BacklinkIndexingCoordinator
    cpc,              \* the phase process_url_collection is about to run
    url_records,      \* the URLRecord list of process_url_collection
    final_results,    \* the dictionary process_url_collection returns
    method_results,   \* what asyncio.gather returned for the primary methods
    epc,              \* position within the enhanced process_url_collection
    submitted_urls,   \* the URL list handed to the enhanced coordinator
    platforms,        \* enabled platforms of each multi-platform engine
    recorded,         \* IndexingAttempts handed to success_tracker
    session_stats,    \* self.session_stats of the enhanced coordinator
    enhanced_results, \* what the enhanced process_url_collection returns
    ledger,           \* rows of table indexing_attempts, in insertion order
    daily_summaries,  \* rows of table daily_summaries, by <<date, method>>
    metrics_cache,    \* self.metrics_cache
    last_cache_update,\* self.last_cache_update
    cache_seen,       \* ledger length when each cache entry was computed
    now,              \* datetime.now(), in seconds
    ticks,            \* number of clock advances so far
    tracker_last,     \* the last SuccessTracker call and what it returned
    model,            \* self.model of the IndexingPredictor
    predictor_last,   \* the last IndexingPredictor call and what it returned
    task_table,       \* rows of the task_queue table, by id
    next_id,          \* id the next task_queue row gets
    invocations,      \* the process_tasks calls in progress, by caller
    today,            \* datetime.utcnow(), in days
    executions,       \* the processor calls made so far
    task_last,        \* the last cleanup_completed_tasks call
    attempt_rows,     \* rows of the indexing_attempts table
    summary_rows,     \* rows of the daily_summaries table, by (date, method)
    recorders,        \* the record_attempt calls in progress, by worker
    base_metrics,     \* total_attempts and successful_attempts of a method
    batch_last,       \* the last process_batch call and what it returned
    celery_last       \* the last process_url_batch call and what it returned

queueVars == <<pending, active, failed_urls, sent, last, scheduled, attempts,
               outcomes, delays>>

strategyVars == <<urls, pc, remaining_urls, strategy_results>>

coordinatorVars ==
    <<config, cpc, url_records, final_results, method_results>>

enhancedVars ==
    <<epc, submitted_urls, platforms, recorded, session_stats,
      enhanced_results>>

trackerVars ==
    <<ledger, daily_summaries, metrics_cache, last_cache_update, cache_seen,
      now, ticks, tracker_last>>

predictorVars == <<model, predictor_last>>

taskVars ==
    <<task_table, next_id, invocations, today, executions, task_last>>

summaryVars == <<attempt_rows, summary_rows, recorders>>

batchVars == <<base_metrics, batch_last>>

celeryVars == <<celery_last>>

serviceVars == <<taskVars, summaryVars, batchVars, celeryVars>>

vars ==
    <<queueVars, strategyVars, coordinatorVars, enhancedVars, trackerVars,
      predictorVars, serviceVars>>

\* steps of the retry chain leave the other components alone
QueueOnly ==
    UNCHANGED <<strategyVars, coordinatorVars, enhancedVars, trackerVars,
               predictorVars, serviceVars>>

----------------------------------------------------------------------------
(* Bounds of the model *)

\* cap on the number of task messages sent for the URL
MaxTasks == 12
\* number of worker processes consuming the queues
Workers == 2

(* Program constants *)

\* IndexingTask.retry_kwargs['max_retries'], the limit self.retry enforces
max_retries == 3
\* "Maximum retry attempts" of retry_failed_url
MaxAttempt == 5

\* backoff_delay = min(300, (2 ** attempt) * 60)
SleepBase == 60
SleepCap == 300
\* countdown=min(600, (2 ** next_attempt) * 120)
CountdownBase == 120
CountdownCap == 600

\* the URL submitted with TaskManager.submit_single_url
Url == "u1"

----------------------------------------------------------------------------
(* Helpers *)

Min(a, b) == IF a <= b THEN a ELSE b

RECURSIVE Pow2(_)
Pow2(n) == IF n = 0 THEN 1 ELSE 2 * Pow2(n - 1)

\* coordinator.process_url(url_record): True, False, or an exception
process_url == {"ok", "fail", "exc"}

\* variant of backoff_delay that forgets the cap
backoff_delay_uncapped(attempt) == Pow2(attempt) * SleepBase

\* backoff_delay = min(300, (2 ** attempt) * 60)
backoff_delay(attempt) == Min(SleepCap, Pow2(attempt) * SleepBase)

\* countdown=min(600, (2 ** next_attempt) * 120)
retry_countdown(next_attempt) ==
    Min(CountdownCap, Pow2(next_attempt) * CountdownBase)

\* countdown=2 ** self.request.retries
self_retry_countdown(retries) == Pow2(retries)

Msg(task, n, countdown) == [task |-> task, n |-> n, countdown |-> countdown]

Exec(m, phase, slept) ==
    [task |-> m.task, n |-> m.n, countdown |-> m.countdown,
     phase |-> phase, slept |-> slept]

Done(task, n, outcome, status, msgs) ==
    [task |-> task, n |-> n, outcome |-> outcome, status |-> status,
     scheduled |-> msgs]

\* the bag holding each message of the sequence msgs once per occurrence
RECURSIVE SeqToBag(_)
SeqToBag(msgs) ==
    IF msgs = <<>> THEN EmptyBag
    ELSE SetToBag({Head(msgs)}) (+) SeqToBag(Tail(msgs))

\* .delay() / .apply_async() / the re-delivery of self.retry
Send(msgs) ==
    /\ sent + Len(msgs) <= MaxTasks
    /\ pending' = pending (+) SeqToBag(msgs)
    /\ sent' = sent + Len(msgs)
    /\ scheduled' =
         [a \in DOMAIN scheduled |->
            scheduled[a] + Cardinality({i \in 1..Len(msgs) :
                msgs[i].task = "retry_failed_url" /\ msgs[i].n = a})]

----------------------------------------------------------------------------
(* The Celery retry chain *)

\* TaskManager.submit_single_url: process_single_url.delay(url, ...)
QueueInit ==
    /\ pending = SetToBag({Msg("process_single_url", 0, 0)})
    /\ active = EmptyBag
    /\ failed_urls = {}
    /\ sent = 1
    /\ last = Done("submit_single_url", 0, "none", "submitted",
                   <<Msg("process_single_url", 0, 0)>>)
    /\ scheduled = [a \in 1..(MaxAttempt + 1) |-> 0]
    /\ attempts = 0
    /\ outcomes = {}
    /\ delays = {}

\* a worker takes a process_single_url message (first delivery or the
\* re-delivery of self.retry) and enters the task body
StartProcessSingleUrl ==
    \E m \in BagToSet(pending) :
        /\ m.task = "process_single_url"
        /\ BagCardinality(active) < Workers
        /\ pending' = pending (-) SetToBag({m})
        /\ active' = active (+) SetToBag({Exec(m, "processing", 0)})
        /\ UNCHANGED <<failed_urls, sent, last, scheduled, attempts,
                       outcomes, delays>>
        /\ QueueOnly

\* what the except branch of process_single_url sends when the task runs in
\* a worker with self.request.retries = retries
TaskFailureMessages(retries) ==
    <<Msg("retry_failed_url", retries + 1, 0)>> \o
    (IF retries + 1 > max_retries
        THEN <<>>
        ELSE <<Msg("process_single_url", retries + 1,
                   self_retry_countdown(retries))>>)

\* process_single_url run as a task finishes
FinishProcessSingleUrl ==
    \E e \in BagToSet(active), o \in process_url :
        /\ e.task = "process_single_url"
        /\ active' = active (-) SetToBag({e})
        /\ outcomes' = outcomes \cup {o}
        /\ IF o = "exc"
              THEN /\ Send(TaskFailureMessages(e.n))
                   /\ last' = Done(e.task, e.n, o,
                                   IF e.n + 1 > max_retries
                                      THEN "failure" ELSE "retry",
                                   TaskFailureMessages(e.n))
              ELSE /\ last' = Done(e.task, e.n, o, "completed", <<>>)
                   /\ UNCHANGED <<pending, sent, scheduled>>
        /\ UNCHANGED <<failed_urls, attempts, delays>>
        /\ QueueOnly

\* a worker takes a retry_failed_url message: permanent failure when
\* attempt > 5, otherwise the task starts sleeping its backoff delay
StartRetryFailedUrl ==
    \E m \in BagToSet(pending) :
        /\ m.task = "retry_failed_url"
        /\ BagCardinality(active) < Workers
        /\ pending' = pending (-) SetToBag({m})
        /\ IF m.n > MaxAttempt
              THEN /\ failed_urls' = failed_urls \cup {Url}
                   /\ last' = Done(m.task, m.n, "none", "permanently_failed",
                                   <<>>)
                   /\ UNCHANGED active
              ELSE /\ active' = active (+)
                        SetToBag({Exec(m, "sleeping", backoff_delay(m.n))})
                   /\ UNCHANGED <<failed_urls, last>>
        /\ UNCHANGED <<sent, scheduled, attempts, outcomes, delays>>
        /\ QueueOnly

\* time.sleep(backoff_delay) returns and process_single_url is called
\* directly
WakeRetryFailedUrl ==
    \E e \in BagToSet(active) :
        /\ e.task = "retry_failed_url"
        /\ e.phase = "sleeping"
        /\ active' = (active (-) SetToBag({e})) (+)
                     SetToBag({[e EXCEPT !.phase = "processing"]})
        /\ attempts' = attempts + 1
        /\ delays' = delays \cup
             {[attempt |-> e.n, countdown |-> e.countdown, slept |-> e.slept]}
        /\ UNCHANGED <<pending, failed_urls, sent, last, scheduled, outcomes>>
        /\ QueueOnly

\* what a retry_failed_url execution sends when the direct call of
\* process_single_url raises: the callee's except branch runs with
\* self.request.retries = 0, then the caller's except branch
RetryFailureMessages(attempt) ==
    <<Msg("retry_failed_url", 0 + 1, 0)>> \o
    (IF attempt + 1 <= MaxAttempt
        THEN <<Msg("retry_failed_url", attempt + 1,
                   retry_countdown(attempt + 1))>>
        ELSE <<>>)

\* the direct call of process_single_url returns or raises and
\* retry_failed_url finishes
FinishRetryFailedUrl ==
    \E e \in BagToSet(active), o \in process_url :
        /\ e.task = "retry_failed_url"
        /\ e.phase = "processing"
        /\ active' = active (-) SetToBag({e})
        /\ outcomes' = outcomes \cup {o}
        /\ IF o = "exc"
              THEN /\ Send(RetryFailureMessages(e.n))
                   /\ last' = Done(e.task, e.n, o, "retry_scheduled",
                                   RetryFailureMessages(e.n))
              ELSE /\ last' = Done(e.task, e.n, o, "completed", <<>>)
                   /\ UNCHANGED <<pending, sent, scheduled>>
        /\ UNCHANGED <<failed_urls, attempts, delays>>
        /\ QueueOnly

QueueNext ==
    \/ StartProcessSingleUrl
    \/ FinishProcessSingleUrl
    \/ StartRetryFailedUrl
    \/ WakeRetryFailedUrl
    \/ FinishRetryFailedUrl

----------------------------------------------------------------------------
(* MultiLayerIndexingStrategy *)

\* URLs a caller may submit
Urls == {"a", "b"}
\* longest URL list submitted
MaxUrls == 2

UrlLists == UNION {[1..n -> Urls] : n \in 0..MaxUrls}

Range(f) == {f[x] : x \in DOMAIN f}

RECURSIVE SumOver(_, _)
SumOver(S, f) ==
    IF S = {} THEN 0
    ELSE LET x == CHOOSE y \in S : TRUE
         IN f[x] + SumOver(S \ {x}, f)

\* self.strategy_layers
strategy_layers ==
    [primary |-> <<"social_bookmarking", "rss_distribution", "web2_posting">>,
     secondary |-> <<"forum_commenting", "directory_submission">>,
     amplification |-> <<"social_signals">>]

\* self.layer_thresholds, in hundredths
layer_thresholds == [primary |-> 70, secondary |-> 50, amplification |-> 30]

\* EXPECTED_SUCCESS_RATES, in hundredths
EXPECTED_SUCCESS_RATES ==
    [social_bookmarking |-> 75, rss_distribution |-> 85, web2_posting |-> 80,
     forum_commenting |-> 65, directory_submission |-> 70,
     social_signals |-> 60]

\* the engines the coordinator holds (hasattr(self.coordinator, ..._engine))
engines ==
    {"social_bookmarking", "rss_distribution", "web2_posting",
     "forum_commenting", "directory_submission", "social_signals"}

\* what engine.process_batch can do with a batch of n URLs: raise, or
\* return one result per URL with its success flag
BatchOutcomes(n) ==
    {[raises |-> TRUE, success |-> << >>]} \cup
    {[raises |-> FALSE, success |-> f] : f \in [1..n -> BOOLEAN]}

\* the results list of engine.process_batch(batch)
process_batch(batch, o) ==
    [i \in 1..Len(batch) |-> [url |-> batch[i], success |-> o.success[i]]]

\* execute_method_batch: the batch summary, or the error dictionary (which
\* has no 'results' key) when process_batch raised
execute_method_batch(method_name, batch, o) ==
    IF o.raises
       THEN [method |-> method_name, has_results |-> FALSE,
             total_urls |-> 0, successful_urls |-> 0, results |-> << >>]
       ELSE LET results == process_batch(batch, o)
            IN [method |-> method_name, has_results |-> TRUE,
                total_urls |-> Len(batch),
                successful_urls |->
                    Cardinality({i \in 1..Len(results) : results[i].success}),
                results |-> results]

\* execute_layer: every method of the layer whose engine exists runs on the
\* same batch; outs gives what each engine does
execute_layer(layer_name, url_metadata_pairs, outs) ==
    LET methods == {m \in Range(strategy_layers[layer_name]) : m \in engines}
    IN [layer |-> layer_name,
        methods_used |-> strategy_layers[layer_name],
        urls |-> url_metadata_pairs,
        total_attempts |-> Len(url_metadata_pairs),
        method_results |->
            [m \in methods |->
                execute_method_batch(m, url_metadata_pairs, outs[m])]]

LayerOutcomes(layer_name, n) ==
    [Range(strategy_layers[layer_name]) -> BatchOutcomes(n)]

\* URLs with a successful result in some method of the layer
LayerSuccessfulUrls(layer_results) ==
    {r.url : r \in UNION {
        {mr.results[i] : i \in {j \in 1..Len(mr.results) :
                                  mr.results[j].success}} :
        mr \in {x \in Range(layer_results.method_results) : x.has_results}}}

\* variant of filter_unsuccessful_urls that filters nothing out
filter_nothing(url_metadata_pairs, layer_results) == url_metadata_pairs

\* filter_unsuccessful_urls
filter_unsuccessful_urls(url_metadata_pairs, layer_results) ==
    IF DOMAIN layer_results.method_results = {}
       THEN url_metadata_pairs
       ELSE LET successful_urls == LayerSuccessfulUrls(layer_results)
                Unsuccessful(u) == u \notin successful_urls
            IN SelectSeq(url_metadata_pairs, Unsuccessful)

\* variant of amplification_urls that keeps the filtered list
amplification_urls_filtered(original_urls, remaining) == remaining

\* amplification_urls = list(zip(urls, metadata_list)), "Reset to all URLs"
amplification_urls(original_urls, remaining) == original_urls

\* calculate_overall_results
calculate_overall_results(results, original_urls) ==
    LET all_successful_urls ==
            UNION {LayerSuccessfulUrls(results.layer_results[l]) :
                   l \in DOMAIN results.layer_results}
        Failed(u) == u \notin all_successful_urls
    IN [results EXCEPT
            !.successful_urls = all_successful_urls,
            !.failed_urls = SelectSeq(original_urls, Failed),
            !.overall_success_rate =
                IF original_urls # << >>
                   THEN <<Cardinality(all_successful_urls),
                          Len(original_urls)>>
                   ELSE <<0, 1>>]

\* no call of execute_layered_strategy has been made
StrategyIdle ==
    /\ urls = << >>
    /\ pc = "idle"
    /\ remaining_urls = << >>
    /\ strategy_results =
         [urls_processed |-> 0, layer_results |-> << >>,
          overall_success_rate |-> <<0, 1>>, failed_urls |-> << >>,
          successful_urls |-> {}]

\* steps of the layered strategy leave the other components alone
StrategyOnly ==
    UNCHANGED <<queueVars, coordinatorVars, enhancedVars, trackerVars,
               predictorVars, serviceVars>>

\* execute_layered_strategy(urls, metadata_list) is entered; the caller
\* process_url_collection passes one metadata entry per URL
StartStrategy ==
    /\ pc = "idle"
    /\ \E submitted \in UrlLists :
         /\ urls' = submitted
         /\ remaining_urls' = submitted
         /\ strategy_results' =
              [strategy_results EXCEPT !.urls_processed = Len(submitted)]
    /\ pc' = "primary"
    /\ StrategyOnly

\* runs the named layer on remaining_urls when there are any, then filters
RunFilteringLayer(layer_name) ==
    IF remaining_urls # << >>
       THEN \E outs \in LayerOutcomes(layer_name, Len(remaining_urls)) :
              LET layer_results ==
                      execute_layer(layer_name, remaining_urls, outs)
              IN /\ strategy_results' =
                      [strategy_results EXCEPT !.layer_results =
                          @ @@ (layer_name :> layer_results)]
                 /\ remaining_urls' =
                      filter_unsuccessful_urls(remaining_urls, layer_results)
       ELSE UNCHANGED <<strategy_results, remaining_urls>>

\* "Execute primary layer"
PrimaryLayer ==
    /\ pc = "primary"
    /\ RunFilteringLayer("primary")
    /\ pc' = "secondary"
    /\ UNCHANGED urls
    /\ StrategyOnly

\* "Execute secondary layer for remaining URLs"
SecondaryLayer ==
    /\ pc = "secondary"
    /\ RunFilteringLayer("secondary")
    /\ pc' = "amplification"
    /\ UNCHANGED urls
    /\ StrategyOnly

\* "Execute amplification layer for all URLs", then the overall results
AmplificationLayer ==
    /\ pc = "amplification"
    /\ LET batch == amplification_urls(urls, remaining_urls)
       IN \E outs \in LayerOutcomes("amplification", Len(batch)) :
            strategy_results' =
                calculate_overall_results(
                    [strategy_results EXCEPT !.layer_results =
                        @ @@ ("amplification" :>
                              execute_layer("amplification", batch, outs))],
                    urls)
    /\ pc' = "done"
    /\ UNCHANGED <<urls, remaining_urls>>
    /\ StrategyOnly

StrategyNext ==
    \/ StartStrategy
    \/ PrimaryLayer
    \/ SecondaryLayer
    \/ AmplificationLayer

----------------------------------------------------------------------------
(* BacklinkIndexingCoordinator *)

\* config.success_threshold values a caller configures, in hundredths
\* (0.95 is the default)
SuccessThresholds == {20, 80, 95}

\* str.lower() on the letters
LowerOf ==
    ("A" :> "a") @@ ("B" :> "b") @@ ("C" :> "c") @@ ("D" :> "d") @@
    ("E" :> "e") @@ ("F" :> "f") @@ ("G" :> "g") @@ ("H" :> "h") @@
    ("I" :> "i") @@ ("J" :> "j") @@ ("K" :> "k") @@ ("L" :> "l") @@
    ("M" :> "m") @@ ("N" :> "n") @@ ("O" :> "o") @@ ("P" :> "p") @@
    ("Q" :> "q") @@ ("R" :> "r") @@ ("S" :> "s") @@ ("T" :> "t") @@
    ("U" :> "u") @@ ("V" :> "v") @@ ("W" :> "w") @@ ("X" :> "x") @@
    ("Y" :> "y") @@ ("Z" :> "z")

lower(str) ==
    [i \in 1..Len(str) |->
        IF str[i] \in DOMAIN LowerOf THEN LowerOf[str[i]] ELSE str[i]]

IsPrefix(pat, str) ==
    /\ Len(pat) <= Len(str)
    /\ SubSeq(str, 1, Len(pat)) = pat

\* str.replace(old, new) for a non-empty old
RECURSIVE replace(_, _, _)
replace(str, old, new) ==
    IF str = << >> THEN << >>
    ELSE IF IsPrefix(old, str)
            THEN new \o replace(SubSeq(str, Len(old) + 1, Len(str)), old, new)
            ELSE <<Head(str)>> \o replace(Tail(str), old, new)

\* __class__.__name__ of the three primary engines, as characters
ClassName ==
    [SocialBookmarkingEngine |->
        <<"S", "o", "c", "i", "a", "l", "B", "o", "o", "k", "m", "a", "r",
          "k", "i", "n", "g", "E", "n", "g", "i", "n", "e">>,
     RSSDistributionEngine |->
        <<"R", "S", "S", "D", "i", "s", "t", "r", "i", "b", "u", "t", "i",
          "o", "n", "E", "n", "g", "i", "n", "e">>,
     Web2PostingEngine |->
        <<"W", "e", "b", "2", "P", "o", "s", "t", "i", "n", "g", "E", "n",
          "g", "i", "n", "e">>]

\* the keys of EXPECTED_SUCCESS_RATES, as characters
RateKey ==
    [social_bookmarking |->
        <<"s", "o", "c", "i", "a", "l", "_", "b", "o", "o", "k", "m", "a",
          "r", "k", "i", "n", "g">>,
     rss_distribution |->
        <<"r", "s", "s", "_", "d", "i", "s", "t", "r", "i", "b", "u", "t",
          "i", "o", "n">>,
     web2_posting |->
        <<"w", "e", "b", "2", "_", "p", "o", "s", "t", "i", "n", "g">>,
     forum_commenting |->
        <<"f", "o", "r", "u", "m", "_", "c", "o", "m", "m", "e", "n", "t",
          "i", "n", "g">>,
     directory_submission |->
        <<"d", "i", "r", "e", "c", "t", "o", "r", "y", "_", "s", "u", "b",
          "m", "i", "s", "s", "i", "o", "n">>,
     social_signals |->
        <<"s", "o", "c", "i", "a", "l", "_", "s", "i", "g", "n", "a", "l",
          "s">>]

\* EXPECTED_SUCCESS_RATES.get(method_name.lower().replace('engine', ''), 0.1)
method_weight(method_name) ==
    LET key == replace(lower(ClassName[method_name]),
                       <<"e", "n", "g", "i", "n", "e">>, << >>)
        hits == {k \in DOMAIN EXPECTED_SUCCESS_RATES : RateKey[k] = key}
    IN IF hits # {}
          THEN EXPECTED_SUCCESS_RATES[CHOOSE k \in hits : TRUE]
          ELSE 10

\* the weight of each engine class, looked up once
method_weights == [m \in DOMAIN ClassName |-> method_weight(m)]

\* the IndexingConfig values a caller may pass
Configs ==
    [social_bookmarking_enabled : BOOLEAN,
     rss_distribution_enabled : BOOLEAN,
     web2_posting_enabled : BOOLEAN,
     success_threshold : SuccessThresholds]

\* _setup_indexing_methods: the enabled primary engines, in order
primary_methods(cfg) ==
    (IF cfg.social_bookmarking_enabled
        THEN <<"SocialBookmarkingEngine">> ELSE << >>) \o
    (IF cfg.rss_distribution_enabled
        THEN <<"RSSDistributionEngine">> ELSE << >>) \o
    (IF cfg.web2_posting_enabled
        THEN <<"Web2PostingEngine">> ELSE << >>)

\* _setup_indexing_methods adds no secondary method
secondary_methods(cfg) == << >>

\* URLRecord(url=url)
URLRecord(url) ==
    [url |-> url, status |-> "pending", methods_attempted |-> << >>,
     methods_successful |-> << >>, attempts |-> 0, success_score |-> 0]

\* variant of update_record that sets the status from the last result alone
update_record_last_result(record, results, method_name, cfg) ==
    LET found == {i \in 1..Len(results) : results[i].url = record.url}
    IN IF found = {} THEN record
       ELSE LET url_result ==
                    results[CHOOSE i \in found : \A j \in found : i <= j]
                score == IF url_result.success
                            THEN record.success_score
                                    + method_weights[method_name]
                            ELSE record.success_score
            IN [record EXCEPT
                   !.methods_attempted = Append(@, method_name),
                   !.methods_successful =
                       IF url_result.success
                          THEN Append(@, method_name) ELSE @,
                   !.success_score = score,
                   !.attempts = @ + 1,
                   !.status =
                       IF ~url_result.success THEN "failed"
                       ELSE IF score >= cfg.success_threshold THEN "success"
                       ELSE "partial_success"]

\* the per-record body of _update_records_with_results; results is the
\* list process_batch returned
update_record(record, results, method_name, cfg) ==
    LET found == {i \in 1..Len(results) :
                    results[i].url = record.url}
    IN IF found = {} THEN record
       ELSE LET url_result ==
                    results[CHOOSE i \in found :
                                     \A j \in found : i <= j]
                score == IF url_result.success
                            THEN record.success_score
                                    + method_weights[method_name]
                            ELSE record.success_score
            IN [record EXCEPT
                   !.methods_attempted = Append(@, method_name),
                   !.methods_successful =
                       IF url_result.success
                          THEN Append(@, method_name) ELSE @,
                   !.success_score = score,
                   !.attempts = @ + 1,
                   !.status =
                       IF score >= cfg.success_threshold THEN "success"
                       ELSE IF score > 0 THEN "partial_success"
                       ELSE "failed"]

\* _update_records_with_results
update_records_with_results(records, results, method_name, cfg) ==
    [i \in 1..Len(records) |->
        update_record(records[i], results, method_name, cfg)]

\* the loop of _execute_primary_methods over the gathered results, from
\* method index idx on: a method whose batch raised is skipped
RECURSIVE apply_method_results(_, _, _, _, _)
apply_method_results(records, methods, outs, idx, cfg) ==
    IF idx > Len(methods) THEN records
    ELSE apply_method_results(
            IF outs[idx].raises
               THEN records
               ELSE update_records_with_results(
                        records,
                        process_batch([i \in 1..Len(records) |->
                                          records[i].url], outs[idx]),
                        methods[idx], cfg),
            methods, outs, idx + 1, cfg)

CountStatus(records, status) ==
    Cardinality({i \in 1..Len(records) : records[i].status = status})

\* _compile_final_results
compile_final_results(records) ==
    LET total_urls == Len(records)
        successful_urls == CountStatus(records, "success")
        partial_success == CountStatus(records, "partial_success")
    IN [total_urls |-> total_urls,
        successful_urls |-> successful_urls,
        partial_success_urls |-> partial_success,
        failed_urls |-> CountStatus(records, "failed"),
        overall_success_rate |->
            IF total_urls > 0
               THEN <<successful_urls + partial_success, total_urls>>
               ELSE <<0, 1>>]

\* no coordinator has been built
CoordinatorIdle ==
    /\ config = [social_bookmarking_enabled |-> TRUE,
                 rss_distribution_enabled |-> TRUE,
                 web2_posting_enabled |-> TRUE,
                 success_threshold |-> 95]
    /\ cpc = "idle"
    /\ url_records = << >>
    /\ final_results = compile_final_results(<< >>)
    /\ method_results = << >>

\* steps of the coordinator leave the other components alone
CoordinatorOnly ==
    UNCHANGED <<queueVars, strategyVars, enhancedVars, trackerVars,
               predictorVars, serviceVars>>

\* BacklinkIndexingCoordinator(config) is built and process_url_collection
\* is entered: one URLRecord per submitted URL
StartCollection ==
    /\ cpc = "idle"
    /\ \E cfg \in Configs, submitted \in UrlLists :
         /\ config' = cfg
         /\ url_records' =
              [i \in 1..Len(submitted) |-> URLRecord(submitted[i])]
    /\ cpc' = "primary"
    /\ UNCHANGED <<final_results, method_results>>
    /\ CoordinatorOnly

\* _execute_primary_methods: every enabled method processes the whole
\* batch, then the records are updated method by method
ExecutePrimaryMethods ==
    /\ cpc = "primary"
    /\ LET methods == primary_methods(config)
       IN IF methods = << >>
             THEN UNCHANGED <<url_records, method_results>>
             ELSE \E outs \in [1..Len(methods) ->
                                 BatchOutcomes(Len(url_records))] :
                    /\ method_results' = outs
                    /\ url_records' =
                         apply_method_results(url_records, methods, outs, 1,
                                              config)
    /\ cpc' = "secondary"
    /\ UNCHANGED <<config, final_results>>
    /\ CoordinatorOnly

\* the rest of process_url_collection: _execute_secondary_methods returns
\* at once (there is no secondary method), then _compile_final_results
CompileFinalResults ==
    /\ cpc = "secondary"
    /\ secondary_methods(config) = << >>
    /\ final_results' = compile_final_results(url_records)
    /\ cpc' = "done"
    /\ UNCHANGED <<config, url_records, method_results>>
    /\ CoordinatorOnly

CoordinatorNext ==
    \/ StartCollection
    \/ ExecutePrimaryMethods
    \/ CompileFinalResults

----------------------------------------------------------------------------
(* EnhancedBacklinkIndexingCoordinator *)

\* longest URL list submitted to the enhanced coordinator
MaxSubmitted == 2
\* an engine has no platform enabled, or one
EnabledPlatforms == {0, 1}

\* URLs as urlparse splits them: two well-formed ones, one with a scheme
\* other than http(s), one without a network location
ParsedUrls ==
    {[scheme |-> "https", netloc |-> "a.example"],
     [scheme |-> "http", netloc |-> "b.example"],
     [scheme |-> "ftp", netloc |-> "a.example"],
     [scheme |-> "https", netloc |-> ""]}

SubmittedLists == UNION {[1..n -> ParsedUrls] : n \in 0..MaxSubmitted}

\* validate_url
validate_url(url) ==
    IF url.netloc = "" \/ url.scheme \notin {"http", "https"}
       THEN FALSE
       ELSE TRUE

\* the engines whose process_url returns 'platform_results', one entry per
\* enabled platform
platform_engines ==
    {"social_bookmarking", "web2_posting", "forum_commenting",
     "social_signals"}

\* an engine with no enabled platform has no successful submission
PlatformsConsistent(enabled, results) ==
    \A l \in DOMAIN results.layer_results :
        \A m \in DOMAIN results.layer_results[l].method_results :
            LET mr == results.layer_results[l].method_results[m]
            IN (m \in platform_engines /\ enabled[m] = 0) =>
                   \A i \in 1..Len(mr.results) : ~mr.results[i].success

RECURSIVE Flatten(_)
Flatten(seqs) ==
    IF seqs = << >> THEN << >> ELSE Head(seqs) \o Flatten(Tail(seqs))

\* the IndexingAttempts record_indexing_attempts builds for one result (url,
\* method and platform; the success flag is left out)
result_attempts(method_name, result, enabled) ==
    IF method_name \in platform_engines
       THEN [p \in 1..enabled[method_name] |->
                [url |-> result.url, method |-> method_name, platform |-> p]]
       ELSE <<[url |-> result.url, method |-> method_name,
               platform |-> "unknown"]>>

\* the attempts of one method of one layer: none unless the method result
\* has a 'results' key
method_attempts(layer_result, method_name, enabled) ==
    IF method_name \notin DOMAIN layer_result.method_results
       THEN << >>
       ELSE LET mr == layer_result.method_results[method_name]
            IN IF mr.has_results
                  THEN Flatten([i \in 1..Len(mr.results) |->
                          result_attempts(method_name, mr.results[i],
                                          enabled)])
                  ELSE << >>

\* record_indexing_attempts: the record_attempt calls, in call order
record_indexing_attempts(results, enabled) ==
    LET layers == SelectSeq(<<"primary", "secondary", "amplification">>,
                            LAMBDA l : l \in DOMAIN results.layer_results)
    IN Flatten([k \in 1..Len(layers) |->
          Flatten([j \in 1..Len(strategy_layers[layers[k]]) |->
              method_attempts(results.layer_results[layers[k]],
                              strategy_layers[layers[k]][j], enabled)])])

\* update_session_stats
update_session_stats(stats, results) ==
    [urls_processed |-> stats.urls_processed + results.urls_processed,
     successful_indexing |->
        stats.successful_indexing + Cardinality(results.successful_urls),
     failed_indexing |-> stats.failed_indexing + Len(results.failed_urls),
     methods_used |-> stats.methods_used \cup
        UNION {Range(results.layer_results[l].methods_used) :
               l \in DOMAIN results.layer_results}]

\* the coordinator has been built, process_url_collection not yet called
EnhancedIdle ==
    /\ epc = "idle"
    /\ submitted_urls = << >>
    /\ platforms = [m \in platform_engines |-> 0]
    /\ recorded = << >>
    /\ session_stats =
         [urls_processed |-> 0, successful_indexing |-> 0,
          failed_indexing |-> 0, methods_used |-> {}]
    /\ enhanced_results = [success |-> FALSE, error |-> "not called"]

\* process_url_collection(urls) up to the call of execute_layered_strategy:
\* invalid URLs are skipped, and nothing runs when no URL is valid
StartEnhanced ==
    /\ epc = "idle"
    /\ pc = "idle"
    /\ \E url_list \in SubmittedLists :
         LET valid_urls == SelectSeq(url_list, validate_url)
         IN /\ submitted_urls' = url_list
            /\ IF valid_urls = << >>
                  THEN /\ enhanced_results' =
                            [success |-> FALSE,
                             error |-> "No valid URLs to process"]
                       /\ epc' = "done"
                       /\ UNCHANGED strategyVars
                  ELSE /\ urls' = valid_urls
                       /\ remaining_urls' = valid_urls
                       /\ strategy_results' =
                            [strategy_results EXCEPT
                                !.urls_processed = Len(valid_urls)]
                       /\ pc' = "primary"
                       /\ epc' = "strategy"
                       /\ UNCHANGED enhanced_results
    /\ UNCHANGED <<platforms, recorded, session_stats>>
    /\ UNCHANGED <<queueVars, coordinatorVars, trackerVars, predictorVars,
                   serviceVars>>

\* process_url_collection after execute_layered_strategy returned: the
\* attempts are recorded, the session statistics updated and the final
\* results compiled
FinishEnhanced ==
    /\ epc = "strategy"
    /\ pc = "done"
    /\ \E enabled \in [platform_engines -> EnabledPlatforms] :
         /\ PlatformsConsistent(enabled, strategy_results)
         /\ platforms' = enabled
         /\ recorded' = record_indexing_attempts(strategy_results, enabled)
    /\ session_stats' = update_session_stats(session_stats, strategy_results)
    /\ enhanced_results' =
         [success |-> TRUE,
          overall_success_rate |-> strategy_results.overall_success_rate,
          urls_processed |-> Len(urls),
          successful_urls |-> Cardinality(strategy_results.successful_urls),
          failed_urls |-> Len(strategy_results.failed_urls),
          layer_results |-> strategy_results.layer_results,
          session_stats |-> session_stats']
    /\ epc' = "done"
    /\ UNCHANGED submitted_urls
    /\ UNCHANGED <<queueVars, strategyVars, coordinatorVars, trackerVars,
                   predictorVars, serviceVars>>

EnhancedNext ==
    \/ StartEnhanced
    \/ PrimaryLayer
    \/ SecondaryLayer
    \/ AmplificationLayer
    \/ FinishEnhanced

----------------------------------------------------------------------------
(* SuccessTracker *)

\* most rows the ledger holds
MaxLedger == 3
\* most clock advances
MaxTicks == 2

\* self.cache_ttl, in seconds
cache_ttl == 300
SecondsPerDay == 86400

\* how far the clock advances between two calls: past the TTL, or a day and
\* ten seconds
TickDeltas == {400, SecondsPerDay + 10}

\* the method whose attempts are tracked
TrackedMethods == {"social_bookmarking"}
\* the windows asked for: the default of get_method_performance and the one
\* get_success_predictions uses
Windows == {7, 30}

\* timestamp.date(), as a day number
date(t) == t \div SecondsPerDay

\* (a - b).seconds of a timedelta: the seconds component, days left out
timedelta_seconds(a, b) == (a - b) % SecondsPerDay

\* f"{method_name}_{days}"
cache_key(method_name, days) == method_name \o "_" \o ToString(days)

\* del d[key]
Del(d, key) == [k \in DOMAIN d \ {key} |-> d[k]]

\* d[key] = value
Put(d, key, value) == (key :> value) @@ d

\* PerformanceMetrics(method_name=method_name)
PerformanceMetrics(method_name) ==
    [method_name |-> method_name, total_attempts |-> 0,
     successful_attempts |-> 0, last_24h_attempts |-> 0,
     last_24h_successful |-> 0]

\* indexes of the ledger rows WHERE method = ? AND timestamp >= ?
Rows(rows, method_name, start) ==
    {k \in 1..Len(rows) :
        rows[k].method = method_name /\ rows[k].timestamp >= start}

Successes(rows, idx) == Cardinality({k \in idx : rows[k].success})

\* the two queries of get_method_performance at time t
query_metrics(rows, method_name, days, t) ==
    LET window == Rows(rows, method_name, t - days * SecondsPerDay)
        last_24h == Rows(rows, method_name, t - SecondsPerDay)
    IN [method_name |-> method_name,
        total_attempts |-> Cardinality(window),
        successful_attempts |-> Successes(rows, window),
        last_24h_attempts |-> Cardinality(last_24h),
        last_24h_successful |-> Successes(rows, last_24h)]

\* the cache test of get_method_performance
cache_hit(key, cache, updated, t) ==
    /\ key \in DOMAIN cache
    /\ key \in DOMAIN updated
    /\ timedelta_seconds(t, updated[key]) < cache_ttl

\* update_daily_summary: read the day's row, add the attempt, upsert
update_daily_summary(summaries, attempt) ==
    LET key == <<date(attempt.timestamp), attempt.method>>
        current == IF key \in DOMAIN summaries
                      THEN summaries[key]
                      ELSE [total_attempts |-> 0, successful_attempts |-> 0]
    IN Put(summaries, key,
           [total_attempts |-> current.total_attempts + 1,
            successful_attempts |->
                current.successful_attempts
                    + (IF attempt.success THEN 1 ELSE 0)])

\* SuccessTracker.__init__ on an empty database
TrackerIdle ==
    /\ ledger = << >>
    /\ daily_summaries = << >>
    /\ metrics_cache = << >>
    /\ last_cache_update = << >>
    /\ cache_seen = << >>
    /\ now = 0
    /\ ticks = 0
    /\ tracker_last = [op |-> "init"]

TrackerOnly ==
    UNCHANGED <<queueVars, strategyVars, coordinatorVars, enhancedVars,
                predictorVars, serviceVars>>

\* time passes between two calls
Tick ==
    /\ ticks < MaxTicks
    /\ \E d \in TickDeltas : now' = now + d
    /\ ticks' = ticks + 1
    /\ UNCHANGED <<ledger, daily_summaries, metrics_cache, last_cache_update,
                   cache_seen, tracker_last>>
    /\ TrackerOnly

\* record_attempt(attempt): the INSERT may fail, which is caught and logged;
\* the write of update_daily_summary is taken to succeed
RecordAttempt ==
    /\ Len(ledger) < MaxLedger
    /\ \E m \in TrackedMethods, success \in BOOLEAN, insert_ok \in BOOLEAN :
         LET attempt == [method |-> m, success |-> success,
                         timestamp |-> now]
         IN /\ IF insert_ok
                  THEN /\ ledger' = Append(ledger, attempt)
                       /\ daily_summaries' =
                            update_daily_summary(daily_summaries, attempt)
                       /\ metrics_cache' =
                            IF attempt.method \in DOMAIN metrics_cache
                               THEN Del(metrics_cache, attempt.method)
                               ELSE metrics_cache
                  ELSE UNCHANGED <<ledger, daily_summaries, metrics_cache>>
            /\ tracker_last' = [op |-> "record_attempt", attempt |-> attempt,
                                returned |-> "normally",
                                written |-> insert_ok]
    /\ UNCHANGED <<last_cache_update, cache_seen, now, ticks>>
    /\ TrackerOnly

\* the new rows of method_name that a cache entry computed at ledger length
\* seen does not count
Missed(rows, method_name, seen) ==
    Cardinality({k \in (seen + 1)..Len(rows) : rows[k].method = method_name})

\* get_method_performance(method_name, days) as a function of the tracker's
\* state: the metrics returned, whether they came from the cache, and the
\* cache afterwards
get_method_performance(method_name, days, db_ok) ==
    LET key == cache_key(method_name, days)
    IN IF cache_hit(key, metrics_cache, last_cache_update, now)
          THEN [metrics |-> metrics_cache[key], from_cache |-> TRUE,
                age |-> now - last_cache_update[key],
                missed |-> Missed(ledger, method_name, cache_seen[key]),
                cache |-> metrics_cache, updated |-> last_cache_update,
                seen |-> cache_seen]
       ELSE IF db_ok
          THEN LET metrics == query_metrics(ledger, method_name, days, now)
               IN [metrics |-> metrics, from_cache |-> FALSE,
                   age |-> 0, missed |-> 0,
                   cache |-> Put(metrics_cache, key, metrics),
                   updated |-> Put(last_cache_update, key, now),
                   seen |-> Put(cache_seen, key, Len(ledger))]
       ELSE [metrics |-> PerformanceMetrics(method_name),
             from_cache |-> FALSE, age |-> 0, missed |-> 0,
             cache |-> metrics_cache, updated |-> last_cache_update,
             seen |-> cache_seen]

GetMethodPerformance ==
    /\ \E m \in TrackedMethods, days \in Windows, db_ok \in BOOLEAN :
         LET r == get_method_performance(m, days, db_ok)
         IN /\ metrics_cache' = r.cache
            /\ last_cache_update' = r.updated
            /\ cache_seen' = r.seen
            /\ tracker_last' =
                 [op |-> "get_method_performance", method |-> m,
                  days |-> days, metrics |-> r.metrics,
                  from_cache |-> r.from_cache, age |-> r.age,
                  missed |-> r.missed, db_ok |-> db_ok]
    /\ UNCHANGED <<ledger, daily_summaries, now, ticks>>
    /\ TrackerOnly

RECURSIVE Fact(_)
Fact(n) == IF n <= 1 THEN 1 ELSE n * Fact(n - 1)

\* a daily success rate s/n is kept as the integer s * RateScale / n
RateScale == Fact(MaxLedger)

RECURSIVE SortedSeq(_)
SortedSeq(S) ==
    IF S = {} THEN << >>
    ELSE LET least == CHOOSE x \in S : \A y \in S : x <= y
         IN <<least>> \o SortedSeq(S \ {least})

RECURSIVE Sum(_)
Sum(seq) == IF seq = << >> THEN 0 ELSE Head(seq) + Sum(Tail(seq))

\* rates[-n:]
LastN(rates, n) ==
    SubSeq(rates, IF Len(rates) > n THEN Len(rates) - n + 1 ELSE 1,
           Len(rates))

\* rates[:-n]
DropLastN(rates, n) ==
    SubSeq(rates, 1, IF Len(rates) > n THEN Len(rates) - n ELSE 0)

\* the daily success rates of the last 30 days, GROUP BY DATE(timestamp)
\* ORDER BY date
daily_success_rates(rows, method_name, t) ==
    LET idx == Rows(rows, method_name, (date(t) - 30) * SecondsPerDay)
        days == SortedSeq({date(rows[k].timestamp) : k \in idx})
        OfDay(d) == {k \in idx : date(rows[k].timestamp) = d}
    IN [i \in 1..Len(days) |->
            (Successes(rows, OfDay(days[i])) * RateScale)
                \div Cardinality(OfDay(days[i]))]

\* the trend analysis of get_success_predictions on the daily rates
analyse_trend(rates) ==
    IF Len(rates) < 3
       THEN [confidence |-> "low", trend |-> "stable",
             recommendation |-> "insufficient_data",
             days_of_data |-> Len(rates), older_days |-> 0]
       ELSE LET recent_rates == LastN(rates, 7)
                older_rates ==
                    IF Len(rates) >= 14
                       THEN DropLastN(LastN(rates, 14), 7)
                       ELSE DropLastN(rates, 7)
                n == Len(recent_rates)
                \* recent_avg ? older_avg, cross-multiplied
                recent == Sum(recent_rates) * Len(older_rates)
                older == Sum(older_rates) * n
                \* n^3 * RateScale^2 * rate_variance
                spread == Sum([i \in 1..n |->
                              (n * recent_rates[i] - Sum(recent_rates))
                              * (n * recent_rates[i] - Sum(recent_rates))])
                unit == n * n * n * RateScale * RateScale
            IN [confidence |->
                    IF 100 * spread < 5 * unit THEN "high"
                    ELSE IF 100 * spread < 15 * unit THEN "medium"
                    ELSE "low",
                trend |->
                    IF older_rates # << >>
                       THEN IF recent > older THEN "improving"
                            ELSE IF recent < older THEN "declining"
                            ELSE "stable"
                       ELSE "stable",
                recommendation |->
                    IF 10 * Sum(recent_rates) > 8 * n * RateScale
                       THEN "continue_current_strategy"
                    ELSE IF 10 * Sum(recent_rates) > 5 * n * RateScale
                       THEN "optimize_parameters"
                    ELSE "review_and_adjust",
                days_of_data |-> Len(rates),
                older_days |-> Len(older_rates)]

\* get_success_predictions(method_name): get_method_performance over 30 days
\* (which may fill the cache), then the trend query; a failure of the trend
\* query is caught and {} returned
GetSuccessPredictions ==
    /\ \E m \in TrackedMethods, db_ok \in BOOLEAN, query_ok \in BOOLEAN :
         LET r == get_method_performance(m, 30, db_ok)
         IN /\ metrics_cache' = r.cache
            /\ last_cache_update' = r.updated
            /\ cache_seen' = r.seen
            /\ tracker_last' =
                 IF query_ok
                    THEN [op |-> "get_success_predictions", method |-> m,
                          returned |-> "prediction",
                          prediction |->
                              analyse_trend(
                                  daily_success_rates(ledger, m, now))]
                    ELSE [op |-> "get_success_predictions", method |-> m,
                          returned |-> "empty"]
    /\ UNCHANGED <<ledger, daily_summaries, now, ticks>>
    /\ TrackerOnly

TrackerNext ==
    \/ Tick
    \/ RecordAttempt
    \/ GetMethodPerformance
    \/ GetSuccessPredictions

----------------------------------------------------------------------------
(* IndexingPredictor *)

\* IndexingMethod
IndexingMethod ==
    {"social_bookmarking", "rss_distribution", "web2_posting",
     "forum_commenting", "directory_submission", "social_signals"}

\* base_rates of _heuristic_prediction, in hundredths
base_rates ==
    [social_bookmarking |-> 85, rss_distribution |-> 90, web2_posting |-> 75,
     forum_commenting |-> 65, directory_submission |-> 70,
     social_signals |-> 80]

\* what the predictor reads of a URL: the scheme, whether urlparse accepts
\* the brackets of its host, a word it contains and the number of parts
\* path.split('/') gives
PredictorUrls ==
    [scheme : {"http", "https"}, brackets_ok : BOOLEAN,
     word : {"Blog", "news", "shop"}, path_parts : {1, 2, 6, 7}]

\* the word of url.lower()
lower_word(url) ==
    CASE url.word = "Blog" -> "blog"
      [] OTHER -> url.word

Max(a, b) == IF a >= b THEN a ELSE b

\* variant of clamp_probability without the upper limit
clamp_probability_below(base_probability) == Max(10, base_probability)

\* max(0.1, min(0.95, base_probability)), in hundredths
clamp_probability(base_probability) == Max(10, Min(95, base_probability))

\* _heuristic_prediction(url, method); urlparse raises ValueError on a host
\* with unbalanced brackets
heuristic_prediction(url, method) ==
    IF ~url.brackets_ok
       THEN [returned |-> "raised", error |-> "ValueError"]
       ELSE LET base == IF method \in DOMAIN base_rates
                           THEN base_rates[method] ELSE 75
                https == IF url.scheme = "https" THEN 5 ELSE 0
                content == IF lower_word(url) \in {"blog", "article", "news"}
                              THEN 3 ELSE 0
                deep == IF url.path_parts > 6 THEN 2 ELSE 0
            IN [returned |-> "value",
                probability |->
                    clamp_probability(base + https + content - deep),
                info_method |-> "heuristic",
                base_rate |-> base]

\* what the model path of predict_method_success can do: fail at some step,
\* or give the probability of predict_proba (in hundredths)
ModelOutcomes ==
    {[failed |-> TRUE, probability |-> 0]} \cup
    {[failed |-> FALSE, probability |-> q] : q \in {0, 50, 100}}

\* predict_method_success(url, method)
predict_method_success(trained, url, method, outcome) ==
    IF ~trained
       THEN heuristic_prediction(url, method)
    ELSE IF ~url.brackets_ok \/ outcome.failed
       THEN heuristic_prediction(url, method)
    ELSE [returned |-> "value", probability |-> outcome.probability,
          info_method |-> "none"]

\* IndexingPredictor.__init__
PredictorIdle ==
    /\ model = "None"
    /\ predictor_last = [op |-> "init"]

PredictorOnly ==
    UNCHANGED <<queueVars, strategyVars, coordinatorVars, enhancedVars,
                trackerVars, serviceVars>>

\* the previous call has returned and its result has been taken
Callable == predictor_last.op \in {"init", "train_model", "idle"}

\* the caller takes the result of the call
TakeResult ==
    /\ ~Callable
    /\ predictor_last' = [op |-> "idle"]
    /\ UNCHANGED model
    /\ PredictorOnly

\* train_model or load_model succeeds
TrainModel ==
    /\ Callable
    /\ model = "None"
    /\ model' = "trained"
    /\ predictor_last' = [op |-> "train_model"]
    /\ PredictorOnly

PredictMethodSuccess ==
    /\ Callable
    /\ \E url \in PredictorUrls, method \in IndexingMethod,
          outcome \in ModelOutcomes :
         predictor_last' =
             [op |-> "predict_method_success", url |-> url,
              method |-> method, trained |-> model # "None",
              model_failed |-> outcome.failed,
              result |->
                  predict_method_success(model # "None", url, method,
                                         outcome)]
    /\ UNCHANGED model
    /\ PredictorOnly

\* costs of _get_method_cost, in tenths
costs ==
    [rss_distribution |-> 10, social_bookmarking |-> 20,
     social_signals |-> 25, web2_posting |-> 40,
     directory_submission |-> 30, forum_commenting |-> 50]

\* _get_method_cost(method)
get_method_cost(method) ==
    IF method \in DOMAIN costs THEN costs[method] ELSE 30

\* list(IndexingMethod), in definition order
AllMethods ==
    <<"social_bookmarking", "rss_distribution", "web2_posting",
      "forum_commenting", "directory_submission", "social_signals">>

\* longest explicit available_methods list
MaxMethods == 2

\* the available_methods a caller passes: None, or a list
AvailableMethods ==
    {[given |-> FALSE, list |-> << >>]} \cup
    {[given |-> TRUE, list |-> l] :
        l \in UNION {[1..n -> IndexingMethod] : n \in 0..MaxMethods}}

\* the budget_constraint a caller passes: None, or a budget in tenths
Budgets ==
    {[given |-> FALSE, value |-> 0]} \cup
    {[given |-> TRUE, value |-> b] : b \in {0, 5, 70, 125}}

\* truth value of budget_constraint: None and 0 are false
budget_truthy(budget) == budget.given /\ budget.value # 0

\* probability / cost if budget_constraint and cost > 0 else probability,
\* as the fraction <<numerator, denominator>>
effectiveness(probability, cost, budget) ==
    IF budget_truthy(budget) /\ cost > 0
       THEN <<probability, cost>>
       ELSE <<probability, 1>>

\* the sort key of one (method, probability, effectiveness) entry
sort_key(entry, budget) ==
    IF budget_truthy(budget) THEN entry.effectiveness
    ELSE <<entry.probability, 1>>

\* a < b for fractions with positive denominators
FractionLess(a, b) == a[1] * b[2] < b[1] * a[2]

\* entry put into a list sorted by descending key, after the entries whose
\* key is not smaller (list.sort is stable, also with reverse=True)
RECURSIVE InsertDescending(_, _, _)
InsertDescending(sorted, entry, budget) ==
    IF sorted = << >> THEN <<entry>>
    ELSE IF FractionLess(sort_key(Head(sorted), budget),
                         sort_key(entry, budget))
       THEN <<entry>> \o sorted
    ELSE <<Head(sorted)>> \o InsertDescending(Tail(sorted), entry, budget)

\* method_predictions.sort(key=sort_key, reverse=True)
RECURSIVE sort_descending(_, _)
sort_descending(entries, budget) ==
    IF entries = << >> THEN << >>
    ELSE InsertDescending(
             sort_descending(SubSeq(entries, 1, Len(entries) - 1), budget),
             entries[Len(entries)], budget)

\* the selection loop of optimize_method_combination
RECURSIVE select_methods(_, _, _, _)
select_methods(entries, budget, selected, total_cost) ==
    IF entries = << >> THEN selected
    ELSE LET e == Head(entries)
             cost == get_method_cost(e.method)
             pair == [method |-> e.method, probability |-> e.probability]
         IN IF budget_truthy(budget)
               THEN IF total_cost + cost <= budget.value
                       THEN select_methods(Tail(entries), budget,
                                           Append(selected, pair),
                                           total_cost + cost)
                       ELSE select_methods(Tail(entries), budget, selected,
                                           total_cost)
               ELSE IF Len(selected) < 3
                       THEN select_methods(Tail(entries), budget,
                                           Append(selected, pair),
                                           total_cost)
                       ELSE select_methods(Tail(entries), budget, selected,
                                           total_cost)

\* optimize_method_combination(url, available_methods, budget_constraint);
\* outs[i] is what the model path does for the i-th method
optimize_method_combination(trained, url, available, budget, outs) ==
    LET methods == IF available.given THEN available.list ELSE AllMethods
        predictions ==
            [i \in 1..Len(methods) |->
                predict_method_success(trained, url, methods[i],
                                       outs[i])]
    IN IF \E i \in 1..Len(methods) : predictions[i].returned = "raised"
          THEN [returned |-> "raised", error |-> "ValueError"]
          ELSE LET entries ==
                     [i \in 1..Len(methods) |->
                         [method |-> methods[i],
                          probability |-> predictions[i].probability,
                          effectiveness |->
                              effectiveness(predictions[i].probability,
                                            get_method_cost(methods[i]),
                                            budget)]]
               IN [returned |-> "value",
                   predicted |->
                       [i \in 1..Len(methods) |-> entries[i].probability],
                   selected |->
                       select_methods(sort_descending(entries, budget),
                                      budget, << >>, 0)]

\* what the model path does for each of n methods; without a model the
\* model path is not taken
OutcomeLists(trained, n) ==
    IF trained
       THEN [1..n -> {o \in ModelOutcomes : o.failed \/ o.probability # 50}]
    ELSE {[i \in 1..n |-> [failed |-> TRUE, probability |-> 0]]}

\* the URLs optimize_method_combination is called with
OptimizeUrls ==
    {url \in PredictorUrls :
        url.word \in {"Blog", "shop"} /\ url.path_parts = 7}

OptimizeMethodCombination ==
    /\ Callable
    /\ \E url \in OptimizeUrls, available \in AvailableMethods,
          budget \in Budgets :
         LET n == IF available.given THEN Len(available.list)
                  ELSE Len(AllMethods)
         IN \E model_outcomes \in OutcomeLists(model # "None", n) :
              predictor_last' =
                  [op |-> "optimize_method_combination", url |-> url,
                   available_methods |->
                       IF available.given THEN available.list
                       ELSE AllMethods,
                   budget |-> budget, trained |-> model # "None",
                   result |->
                       optimize_method_combination(model # "None", url,
                                                   available, budget,
                                                   model_outcomes)]
    /\ UNCHANGED model
    /\ PredictorOnly

PredictorNext ==
    \/ TrainModel
    \/ PredictMethodSuccess
    \/ OptimizeMethodCombination
    \/ TakeResult

----------------------------------------------------------------------------
(* Specifications *)

\* no URL has been submitted to the queue
QueueIdle ==
    /\ pending = EmptyBag
    /\ active = EmptyBag
    /\ failed_urls = {}
    /\ sent = 0
    /\ last = Done("none", 0, "none", "none", << >>)
    /\ scheduled = [a \in 1..(MaxAttempt + 1) |-> 0]
    /\ attempts = 0
    /\ outcomes = {}
    /\ delays = {}

----------------------------------------------------------------------------
\* services/background_tasks.py: the task_queue table and TaskProcessor

\* most rows the task_queue table gets
MaxQueued == 2

\* most times a row is returned to pending before process_tasks is no
\* longer started
MaxEpoch == 3

\* default of TaskQueue.max_retries
default_max_retries == 3

\* default of the keep_days parameter of cleanup_completed_tasks
keep_days == 7

\* the days the clock shows
Days == {0, 8}

\* the callers of process_tasks: DOMAIN invocations
Callers == DOMAIN invocations

\* keys of self.processors
processors ==
    {"validate_url", "generate_sitemap", "submit_sitemap", "harvest_gsc",
     "advanced_indexing"}

\* task types of the queued rows: one with a processor, one without
TaskTypes == {"validate_url", "reindex"}

\* priorities of the queued rows (lower number = higher priority)
Priorities == {1, 5}

\* the limit argument of process_tasks
Limits == {1, 10}

\* a column that is NULL
Null == -1

\* a new TaskQueue row; created_at is the position in the order of creation
TaskQueue(task_type, priority, created_at) ==
    [task_type |-> task_type, status |-> "pending", priority |-> priority,
     created_at |-> created_at, completed_at |-> Null, retry_count |-> 0,
     max_retries |-> default_max_retries, epoch |-> 1, final_at |-> Null]

\* filter_by(status='pending')
PendingIds(table) == {id \in DOMAIN table : table[id].status = "pending"}

\* row a comes before row b in
\* order_by(TaskQueue.priority.asc(), TaskQueue.created_at.asc())
order_by(table, a, b) ==
    \/ table[a].priority < table[b].priority
    \/ /\ table[a].priority = table[b].priority
       /\ table[a].created_at < table[b].created_at

\* the ids in ids, in the order of order_by
RECURSIVE Ordered(_, _)
Ordered(table, ids) ==
    IF ids = {} THEN << >>
    ELSE LET first ==
                 CHOOSE a \in ids :
                     \A b \in ids \ {a} : order_by(table, a, b)
         IN <<first>> \o Ordered(table, ids \ {first})

\* variant of select_pending that leaves out .limit(limit)
select_pending_unlimited(table, limit) == Ordered(table, PendingIds(table))

\* the query of process_tasks: the pending rows, ordered, at most limit
select_pending(table, limit) ==
    LET ordered == Ordered(table, PendingIds(table))
    IN SubSeq(ordered, 1, Min(limit, Len(ordered)))

\* the processor calls made for one row: how many, and who made the calls
\* for the latest selection epoch of the row that has any
NoExecution == [count |-> 0, epoch |-> 0, by |-> {}]

\* a processor call by caller w for a row it selected in epoch e
Execute(done, e, w) ==
    [count |-> done.count + 1,
     epoch |-> IF e >= done.epoch THEN e ELSE done.epoch,
     by |-> IF e > done.epoch THEN {w}
            ELSE IF e = done.epoch THEN done.by \cup {w}
            ELSE done.by]

\* a caller that is not inside process_tasks
IdleInvocation == [pc |-> "idle"]

\* no task queued, nobody processing
TasksIdle ==
    /\ task_table = << >>
    /\ next_id = 1
    /\ invocations = [w \in {"a"} |-> IdleInvocation]
    /\ today = 0
    /\ executions = << >>
    /\ task_last = [op |-> "init"]

\* one task queued, and two callers of process_tasks (two requests to
\* /api/process-tasks) that can be active at the same time
TasksRacing ==
    /\ task_table = (1 :> TaskQueue("validate_url", 5, 1))
    /\ next_id = 2
    /\ invocations = [w \in {"a", "b"} |-> IdleInvocation]
    /\ today = 0
    /\ executions = (1 :> NoExecution)
    /\ task_last = [op |-> "init"]

TasksOnly ==
    UNCHANGED <<queueVars, strategyVars, coordinatorVars, enhancedVars,
                trackerVars, predictorVars, summaryVars, batchVars,
                celeryVars>>

\* queue_validation_task and the other queue_* functions: add a row, commit
QueueTask ==
    /\ next_id <= MaxQueued
    /\ \E task_type \in TaskTypes, priority \in Priorities :
         task_table' =
             task_table @@
                 (next_id :> TaskQueue(task_type, priority, next_id))
    /\ executions' = executions @@ (next_id :> NoExecution)
    /\ next_id' = next_id + 1
    /\ UNCHANGED <<invocations, today, task_last>>
    /\ TasksOnly

\* process_tasks(limit) runs its query
StartProcessTasks ==
    /\ \A id \in DOMAIN task_table : task_table[id].epoch <= MaxEpoch
    /\ \E w \in Callers, limit \in Limits :
         /\ invocations[w].pc = "idle"
         /\ LET tasks == select_pending(task_table, limit)
            IN invocations' =
                   [invocations EXCEPT ![w] =
                       [pc |-> IF tasks = << >> THEN "done" ELSE "loop",
                        limit |-> limit,
                        tasks |-> tasks,
                        epochs |->
                            [i \in 1..Len(tasks) |->
                                task_table[tasks[i]].epoch],
                        rows_at_start |-> task_table,
                        i |-> 1,
                        seen_retry_count |-> 0,
                        handled |-> << >>,
                        processed_count |-> 0]]
    /\ UNCHANGED <<task_table, next_id, today, executions, task_last>>
    /\ TasksOnly

\* task.status = 'processing'; db.session.commit(); the row is loaded again
\* by the next attribute access
MarkProcessing ==
    /\ \E w \in Callers :
         /\ invocations[w].pc = "loop"
         /\ LET id == invocations[w].tasks[invocations[w].i]
            IN /\ task_table' =
                      [task_table EXCEPT ![id].status = "processing"]
               /\ invocations' =
                      [invocations EXCEPT
                          ![w].pc = "run",
                          ![w].seen_retry_count = task_table[id].retry_count]
    /\ UNCHANGED <<next_id, today, executions, task_last>>
    /\ TasksOnly

\* the row after the processor returned
completed(row) ==
    [row EXCEPT !.status = "completed", !.completed_at = today,
                !.final_at = today]

\* the row when there is no processor for its task type
unknown_task_type(row) ==
    [row EXCEPT !.status = "failed", !.final_at = today]

\* the row after the except branch: retry_count + 1, back to pending while
\* retry_count < max_retries
retried(row, retry_count) ==
    IF retry_count < row.max_retries
       THEN [row EXCEPT !.retry_count = retry_count, !.status = "pending",
                        !.epoch = row.epoch + 1]
       ELSE [row EXCEPT !.retry_count = retry_count, !.status = "failed",
                        !.final_at = today]

\* the rest of the loop body for the current task: the processor returns
\* or raises, the row is updated and committed. task.retry_count is the
\* value loaded after the first commit or, when the processor committed,
\* the value in the table now
FinishTask ==
    /\ \E w \in Callers :
         /\ invocations[w].pc = "run"
         /\ LET inv == invocations[w]
                id == inv.tasks[inv.i]
                row == task_table[id]
                known == row.task_type \in processors
                next_pc == IF inv.i = Len(inv.tasks) THEN "done" ELSE "loop"
            IN \E raised \in BOOLEAN,
                  retry_count \in {inv.seen_retry_count + 1,
                                   row.retry_count + 1} :
                 /\ ~known => ~raised
                 /\ ~raised => retry_count = row.retry_count + 1
                 /\ task_table' =
                        [task_table EXCEPT ![id] =
                            IF ~known THEN unknown_task_type(row)
                            ELSE IF raised THEN retried(row, retry_count)
                            ELSE completed(row)]
                 /\ executions' =
                        IF known
                           THEN [executions EXCEPT ![id] =
                                    Execute(@, inv.epochs[inv.i], w)]
                           ELSE executions
                 /\ invocations' =
                        [invocations EXCEPT
                            ![w].pc = next_pc,
                            ![w].i = inv.i + 1,
                            ![w].handled = Append(inv.handled, id),
                            ![w].processed_count =
                                IF raised THEN inv.processed_count
                                ELSE inv.processed_count + 1]
    /\ UNCHANGED <<next_id, today, task_last>>
    /\ TasksOnly

\* return processed_count
ReturnProcessTasks ==
    /\ \E w \in Callers :
         /\ invocations[w].pc = "done"
         /\ invocations' = [invocations EXCEPT ![w] = IdleInvocation]
    /\ UNCHANGED <<task_table, next_id, today, executions, task_last>>
    /\ TasksOnly

\* time passes
NextDay ==
    /\ \E d \in Days :
         /\ d > today
         /\ \A e \in Days : e > today => d <= e
         /\ today' = d
    /\ UNCHANGED <<task_table, next_id, invocations, executions, task_last>>
    /\ TasksOnly

\* the rows the query of cleanup_completed_tasks selects: a comparison with
\* a NULL completed_at is not true
old_tasks(table, cutoff_date) ==
    {id \in DOMAIN table :
        /\ table[id].status \in {"completed", "failed"}
        /\ table[id].completed_at # Null
        /\ table[id].completed_at < cutoff_date}

\* cleanup_completed_tasks(), run while no process_tasks call is active
CleanupCompletedTasks ==
    /\ \A w \in Callers : invocations[w].pc = "idle"
    /\ task_table # << >>
    /\ LET cutoff_date == today - keep_days
           old == old_tasks(task_table, cutoff_date)
       IN /\ task_table' =
                 [id \in DOMAIN task_table \ old |-> task_table[id]]
          /\ executions' =
                 [id \in DOMAIN task_table \ old |-> executions[id]]
          /\ task_last' =
                 [op |-> "cleanup_completed_tasks",
                  cutoff_date |-> cutoff_date,
                  removed |-> {task_table[id] : id \in old},
                  count |-> Cardinality(old)]
    /\ UNCHANGED <<next_id, invocations, today>>
    /\ TasksOnly

TasksNext ==
    \/ QueueTask
    \/ StartProcessTasks
    \/ MarkProcessing
    \/ FinishTask
    \/ ReturnProcessTasks
    \/ NextDay
    \/ CleanupCompletedTasks

----------------------------------------------------------------------------
\* monitoring/success_tracker.py: record_attempt called by several workers
\* that share the SQLite file; every call opens its own connections

\* most rows of indexing_attempts
MaxAttempts == 3

\* the workers that record attempts
RecorderWorkers == {"w1", "w2"}

\* the attempts the workers record: method and success on one of two days
RecordedAttempts ==
    [date : {1, 2}, method : {"social_bookmarking", "rss_distribution"},
     success : BOOLEAN]

\* a worker that is not inside record_attempt
IdleRecorder(logged_error) == [pc |-> "idle", logged_error |-> logged_error]

\* SELECT total_attempts, successful_attempts ... WHERE date = ? AND
\* method = ?, and the zeros used when there is no row
select_summary(rows, attempt) ==
    LET key == <<attempt.date, attempt.method>>
    IN IF key \in DOMAIN rows THEN rows[key]
       ELSE [total_attempts |-> 0, successful_attempts |-> 0]

\* the counts update_daily_summary writes, from the counts it has read
updated_counts(read, attempt) ==
    [total_attempts |-> read.total_attempts + 1,
     successful_attempts |->
         read.successful_attempts + (IF attempt.success THEN 1 ELSE 0)]

\* empty tables, no call in progress
SummaryIdle ==
    /\ attempt_rows = << >>
    /\ summary_rows = << >>
    /\ recorders = [w \in RecorderWorkers |-> IdleRecorder(FALSE)]

SummaryOnly ==
    UNCHANGED <<queueVars, strategyVars, coordinatorVars, enhancedVars,
                trackerVars, predictorVars, taskVars, batchVars,
                celeryVars>>

\* record_attempt: INSERT INTO indexing_attempts and commit; an sqlite3
\* error is logged and ends the call
InsertAttempt ==
    /\ Len(attempt_rows) < MaxAttempts
    /\ \E w \in RecorderWorkers, attempt \in RecordedAttempts,
          insert_ok \in BOOLEAN :
         /\ recorders[w].pc = "idle"
         /\ IF insert_ok
               THEN /\ attempt_rows' = Append(attempt_rows, attempt)
                    /\ recorders' =
                           [recorders EXCEPT ![w] =
                               [pc |-> "select", attempt |-> attempt,
                                logged_error |-> @.logged_error]]
               ELSE /\ attempt_rows' = attempt_rows
                    /\ recorders' =
                           [recorders EXCEPT ![w] = IdleRecorder(TRUE)]
    /\ UNCHANGED summary_rows
    /\ SummaryOnly

\* update_daily_summary: the SELECT of the day's counts
SelectSummary ==
    /\ \E w \in RecorderWorkers :
         /\ recorders[w].pc = "select"
         /\ recorders' =
                [recorders EXCEPT ![w] =
                    [pc |-> "replace", attempt |-> @.attempt,
                     read |-> select_summary(summary_rows, @.attempt),
                     logged_error |-> @.logged_error]]
    /\ UNCHANGED <<attempt_rows, summary_rows>>
    /\ SummaryOnly

\* update_daily_summary: INSERT OR REPLACE of the counts and commit; an
\* sqlite3 error is logged and ends the call
ReplaceSummary ==
    /\ \E w \in RecorderWorkers, replace_ok \in BOOLEAN :
         /\ recorders[w].pc = "replace"
         /\ LET rec == recorders[w]
                key == <<rec.attempt.date, rec.attempt.method>>
            IN IF replace_ok
                  THEN /\ summary_rows' =
                              Put(summary_rows, key,
                                  updated_counts(rec.read, rec.attempt))
                       /\ recorders' =
                              [recorders EXCEPT ![w] =
                                  IdleRecorder(rec.logged_error)]
                  ELSE /\ summary_rows' = summary_rows
                       /\ recorders' =
                              [recorders EXCEPT ![w] = IdleRecorder(TRUE)]
    /\ UNCHANGED attempt_rows
    /\ SummaryOnly

SummaryNext ==
    \/ InsertAttempt
    \/ SelectSummary
    \/ ReplaceSummary

----------------------------------------------------------------------------
\* indexing_methods/base.py: IndexingMethodBase.process_batch

\* most attempts a method counts before no further batch is started
MaxTotalAttempts == 4

\* what one pass of the loop body meets: process_url returns a result with
\* 'success' True or False and the delay is slept or raises, process_url
\* returns a result without 'success', or process_url raises
PassOutcomes ==
    [process_url : {"success", "failure"}, delay_raises : BOOLEAN] \cup
    {[process_url |-> "no_success_key", delay_raises |-> FALSE],
     [process_url |-> "raises", delay_raises |-> FALSE]}

\* IndexingMethodBase.__init__
NoMetrics == [total_attempts |-> 0, successful_attempts |-> 0]

\* update_success_metrics(success)
update_success_metrics(metrics, success) ==
    [total_attempts |-> metrics.total_attempts + 1,
     successful_attempts |->
         metrics.successful_attempts + (IF success THEN 1 ELSE 0)]

\* the dict appended by the except branch
failure_result(url) == [url |-> url, kind |-> "error"]

\* the loop of process_batch from the i-th URL on: what it appends to
\* results and what it does to the metrics
RECURSIVE process_batch_loop(_, _, _, _, _)
process_batch_loop(batch, pass, i, results, metrics) ==
    IF i > Len(batch) THEN [results |-> results, metrics |-> metrics]
    ELSE LET o == pass[i]
             returned == [url |-> batch[i], kind |-> o.process_url]
         IN IF o.process_url = "raises"
               THEN process_batch_loop(
                        batch, pass, i + 1,
                        Append(results, failure_result(batch[i])), metrics)
            ELSE IF o.process_url = "no_success_key"
               THEN process_batch_loop(
                        batch, pass, i + 1,
                        results \o <<returned, failure_result(batch[i])>>,
                        metrics)
            ELSE IF o.delay_raises
               THEN process_batch_loop(
                        batch, pass, i + 1,
                        results \o <<returned, failure_result(batch[i])>>,
                        update_success_metrics(
                            metrics, o.process_url = "success"))
            ELSE process_batch_loop(
                     batch, pass, i + 1, Append(results, returned),
                     update_success_metrics(
                         metrics, o.process_url = "success"))

\* a method that has processed nothing
BatchIdle ==
    /\ base_metrics = NoMetrics
    /\ batch_last = [op |-> "init"]

BatchOnly ==
    UNCHANGED <<queueVars, strategyVars, coordinatorVars, enhancedVars,
                trackerVars, predictorVars, taskVars, summaryVars,
                celeryVars>>

\* process_batch(urls)
ProcessBatch ==
    /\ batch_last.op \in {"init", "idle"}
    /\ base_metrics.total_attempts < MaxTotalAttempts
    /\ \E batch \in UrlLists :
         \E pass \in [1..Len(batch) -> PassOutcomes] :
            LET done == process_batch_loop(batch, pass, 1, << >>,
                                           base_metrics)
            IN /\ base_metrics' = done.metrics
               /\ batch_last' =
                      [op |-> "process_batch", urls |-> batch,
                       pass |-> pass, before |-> base_metrics,
                       results |-> done.results]
    /\ BatchOnly

\* the caller takes the results
TakeBatchResults ==
    /\ batch_last.op = "process_batch"
    /\ batch_last' = [op |-> "idle"]
    /\ UNCHANGED base_metrics
    /\ BatchOnly

BatchNext ==
    \/ ProcessBatch
    \/ TakeBatchResults

----------------------------------------------------------------------------
\* queue/celery_queue.py: the process_url_batch task

\* what happens around the loop: building the config and the coordinator
\* raises or not, time.sleep(config.request_delay) raises or not (the
\* method_config can set request_delay to any value), the Redis update
\* raises or not
BatchRuns == [setup_raises : BOOLEAN, sleep_raises : BOOLEAN,
              redis_raises : BOOLEAN]

\* results at the start of process_url_batch
NoCounters == [processed |-> 0, successful |-> 0, failed |-> 0, errors |-> 0]

\* the loop of process_url_batch from the i-th URL on: the counters after
\* it; errors is len(results['errors'])
RECURSIVE process_url_batch_loop(_, _, _, _, _)
process_url_batch_loop(batch, result, sleep_raises, i, counters) ==
    IF i > Len(batch) THEN counters
    ELSE LET counted ==
                 IF result[i] = "ok"
                    THEN [counters EXCEPT
                             !.successful = @ + 1, !.processed = @ + 1]
                 ELSE IF result[i] = "fail"
                    THEN [counters EXCEPT
                             !.failed = @ + 1, !.errors = @ + 1,
                             !.processed = @ + 1]
                 ELSE counters
             raised == result[i] = "exc" \/ sleep_raises
         IN process_url_batch_loop(
                batch, result, sleep_raises, i + 1,
                IF raised
                   THEN [counted EXCEPT !.failed = @ + 1, !.errors = @ + 1]
                   ELSE counted)

\* process_url_batch(urls, method_config): the dict it returns, or the
\* Retry it raises from the outer except branch
process_url_batch(batch, result, run) ==
    IF run.setup_raises \/ run.redis_raises
       THEN [returned |-> "raised", error |-> "Retry"]
       ELSE [returned |-> "value",
             results |->
                 process_url_batch_loop(batch, result, run.sleep_raises, 1,
                                        NoCounters)]

CeleryIdle == celery_last = [op |-> "init"]

CeleryOnly ==
    UNCHANGED <<queueVars, strategyVars, coordinatorVars, enhancedVars,
                trackerVars, predictorVars, taskVars, summaryVars,
                batchVars>>

\* a worker runs process_url_batch
ProcessUrlBatch ==
    /\ celery_last.op \in {"init", "idle"}
    /\ \E batch \in UrlLists, run \in BatchRuns :
         \E result \in [1..Len(batch) -> process_url] :
            celery_last' =
                [op |-> "process_url_batch", urls |-> batch,
                 result |-> result, run |-> run,
                 outcome |-> process_url_batch(batch, result, run)]
    /\ CeleryOnly

\* the result is fetched
TakeUrlBatchResult ==
    /\ celery_last.op = "process_url_batch"
    /\ celery_last' = [op |-> "idle"]
    /\ CeleryOnly

CeleryNext ==
    \/ ProcessUrlBatch
    \/ TakeUrlBatchResult

ServicesIdle == TasksIdle /\ SummaryIdle /\ BatchIdle /\ CeleryIdle

\* the steps of process_tasks
ProcessTasksNext ==
    \/ StartProcessTasks
    \/ MarkProcessing
    \/ FinishTask
    \/ ReturnProcessTasks

\* a URL has been submitted to the queue, nothing else has started
InitQueue ==
    /\ QueueInit /\ StrategyIdle /\ CoordinatorIdle /\ EnhancedIdle
    /\ TrackerIdle /\ PredictorIdle /\ ServicesIdle

\* two process_tasks callers and a queued task, nothing else has started
InitRacing ==
    /\ QueueIdle /\ StrategyIdle /\ CoordinatorIdle /\ EnhancedIdle
    /\ TrackerIdle /\ PredictorIdle
    /\ TasksRacing /\ SummaryIdle /\ BatchIdle /\ CeleryIdle

\* nothing has started
InitIdle ==
    /\ QueueIdle /\ StrategyIdle /\ CoordinatorIdle /\ EnhancedIdle
    /\ TrackerIdle /\ PredictorIdle /\ ServicesIdle

SpecQueue == InitQueue /\ [][QueueNext]_vars

SpecStrategy == InitIdle /\ [][StrategyNext]_vars

SpecCoordinator == InitIdle /\ [][CoordinatorNext]_vars

SpecEnhanced == InitIdle /\ [][EnhancedNext]_vars

SpecTracker == InitIdle /\ [][TrackerNext]_vars

SpecPredictor == InitIdle /\ [][PredictorNext]_vars

SpecTasks == InitIdle /\ [][TasksNext]_vars

SpecConcurrentTasks == InitRacing /\ [][ProcessTasksNext]_vars

SpecSummary == InitIdle /\ [][SummaryNext]_vars

SpecBatch == InitIdle /\ [][BatchNext]_vars

SpecCelery == InitIdle /\ [][CeleryNext]_vars

----------------------------------------------------------------------------
(* Properties of the Celery retry chain *)

\* no message waits in the broker and no worker holds an execution
Quiescent == pending = EmptyBag /\ active = EmptyBag

RECURSIVE CopiesOf(_, _)
CopiesOf(S, B) ==
    IF S = {} THEN 0
    ELSE LET e == CHOOSE x \in S : TRUE
         IN CopiesIn(e, B) + CopiesOf(S \ {e}, B)

\* number of processing attempts for the URL that are in flight
InFlight ==
    CopiesOf({e \in BagToSet(active) : e.phase = "processing"}, active)

\* C1: when every processing attempt of the URL failed, the chain does not
\* end (nothing pending, nothing running) unless the URL was put into the
\* permanent-failure set and 'permanently_failed' was returned for it.
C1_PermanentFailure ==
    (Quiescent /\ "ok" \notin outcomes)
        => (Url \in failed_urls /\ last.status = "permanently_failed")

\* C2: at most 5 retry attempts are ever executed for one submitted URL.
C2_AtMostFiveRetries == attempts <= MaxAttempt

\* C3: for each attempt number at most one retry_failed_url message is ever
\* scheduled, and one failure produces exactly one follow-up message.
C3_NoDuplicateRetry ==
    /\ \A a \in DOMAIN scheduled : scheduled[a] <= 1
    /\ last.outcome = "exc" => Len(last.scheduled) = 1

\* C4: two processing attempts for the URL are never in flight at once.
C4_SequentialAttempts == InFlight <= 1

\* C5: a handler that ended with a failure outcome (success == False or an
\* exception) scheduled a later retry or recorded the URL as permanently
\* failed.
C5_FailureRouted ==
    last.outcome \in {"fail", "exc"}
        => (Len(last.scheduled) > 0 \/ Url \in failed_urls)

\* ranges searched for the pair (base, maxDelay) of C6
MaxBase == 130
MaxCap == 910

\* C6 (as claimed): one pair (base, maxDelay) gives every delay used before
\* a retry attempt n as min(maxDelay, base * 2^n), whether the delay is
\* taken as the countdown and the sleep each, or as their sum.
C6_SingleBackoffPair ==
    \E base \in 1..MaxBase, cap \in 1..MaxCap :
        \/ \A d \in delays :
             /\ d.slept = Min(cap, base * Pow2(d.attempt))
             /\ d.countdown # 0
                  => d.countdown = Min(cap, base * Pow2(d.attempt))
        \/ \A d \in delays :
             d.countdown + d.slept = Min(cap, base * Pow2(d.attempt))

\* C6 (amended): the sleep before retry attempt n is min(300, 60 * 2^n); a
\* retry chained from a failed retry (n >= 2) was scheduled with countdown
\* min(600, 120 * 2^n) and a retry scheduled by process_single_url with
\* none; each of the two delays is non-decreasing in n, strictly increasing
\* until its cap is reached, and never exceeds its cap.
C6_TwoBackoffSchedules ==
    /\ \A d \in delays :
         /\ d.attempt \in 1..MaxAttempt
         /\ d.slept = Min(SleepCap, SleepBase * Pow2(d.attempt))
         /\ d.slept <= SleepCap
         /\ d.countdown \in
              {0, Min(CountdownCap, CountdownBase * Pow2(d.attempt))}
         /\ d.countdown <= CountdownCap
         /\ d.countdown # 0 => d.attempt >= 2
    /\ \A d1, d2 \in delays :
         d1.attempt < d2.attempt =>
            /\ d1.slept <= d2.slept
            /\ d1.slept < SleepCap => d1.slept < d2.slept
            /\ (d1.countdown # 0 /\ d2.countdown # 0) =>
                 /\ d1.countdown <= d2.countdown
                 /\ d1.countdown < CountdownCap
                      => d1.countdown < d2.countdown

\* the fifth retry attempt of a chain of failed retries has begun, after an
\* attempt that was delayed by less than either cap
C6_Witness ==
    /\ \E d \in delays :
         d.attempt = MaxAttempt /\ d.countdown = CountdownCap
            /\ d.slept = SleepCap
    /\ \E d \in delays :
         d.attempt = 2 /\ d.countdown \in 1..(CountdownCap - 1)
            /\ d.slept < SleepCap

----------------------------------------------------------------------------
(* Properties of the layered strategy *)

LayerRan(layer_name) == layer_name \in DOMAIN strategy_results.layer_results

\* the URLs handed to the methods of a layer
LayerInputs(layer_name) ==
    IF LayerRan(layer_name)
       THEN Range(strategy_results.layer_results[layer_name].urls)
       ELSE {}

\* weighted sum of the layer's methods that succeeded for the URL
cumulative_score(layer_name, u) ==
    IF LayerRan(layer_name)
       THEN LET mrs == strategy_results.layer_results[layer_name]
                          .method_results
            IN SumOver({m \in DOMAIN mrs :
                          \E i \in 1..Len(mrs[m].results) :
                             /\ mrs[m].results[i].url = u
                             /\ mrs[m].results[i].success},
                       EXPECTED_SUCCESS_RATES)
       ELSE 0

\* C7: once the secondary layer has been decided, a submitted URL is among
\* the inputs of the secondary layer if and only if its cumulative
\* primary-layer score is below the primary threshold.
C7_SecondaryOnlyBelowThreshold ==
    pc \in {"amplification", "done"} =>
        \A i \in 1..Len(urls) :
            (urls[i] \in LayerInputs("secondary"))
                <=> (cumulative_score("primary", urls[i])
                        < layer_thresholds["primary"])

\* the secondary layer ran for one URL while another URL had reached the
\* primary threshold
C7_Witness ==
    /\ pc = "done"
    /\ \E i, j \in 1..Len(urls) :
         /\ urls[i] \in LayerInputs("secondary")
         /\ urls[j] \notin LayerInputs("secondary")
         /\ cumulative_score("primary", urls[j]) >= layer_thresholds["primary"]

\* C8: every finished run executed the amplification layer on exactly the
\* full original URL list.
C8_AmplificationAllUrls ==
    pc = "done" =>
        /\ LayerRan("amplification")
        /\ strategy_results.layer_results["amplification"].urls = urls
        /\ strategy_results.layer_results["amplification"].total_attempts
              = Len(urls)

\* a run finished in which every URL succeeded in the primary layer and the
\* secondary layer was skipped
C8_Witness ==
    /\ pc = "done"
    /\ urls # << >>
    /\ ~LayerRan("secondary")
    /\ LayerRan("amplification")
    /\ remaining_urls = << >>

\* C10: in a finished run successful_urls and failed_urls partition the
\* submitted URL list and their lengths add up to urls_processed.
C10_ResultPartition ==
    pc = "done" =>
        /\ strategy_results.successful_urls
              \cap Range(strategy_results.failed_urls) = {}
        /\ strategy_results.successful_urls
              \cup Range(strategy_results.failed_urls) = Range(urls)
        /\ Cardinality(strategy_results.successful_urls)
              + Len(strategy_results.failed_urls)
              = strategy_results.urls_processed

----------------------------------------------------------------------------
(* Properties of BacklinkIndexingCoordinator *)

\* C9: in the returned result total_urls is the sum of the success,
\* partial_success and failed counts.
C9_CountsSumToTotal ==
    cpc = "done" =>
        final_results.total_urls =
            final_results.successful_urls
                + final_results.partial_success_urls
                + final_results.failed_urls

\* the records as they were after the loop of _execute_primary_methods had
\* handled the first k gathered results
RecordsAfter(k) ==
    apply_method_results(
        [i \in 1..Len(url_records) |-> URLRecord(url_records[i].url)],
        SubSeq(primary_methods(config), 1, k), method_results, 1, config)

StatusRank(status) ==
    CASE status = "success" -> 3
      [] status = "partial_success" -> 2
      [] status = "failed" -> 1
      [] OTHER -> 0

\* C11: from one handled method result to the next, no record's
\* success_score decreases and no record's status regresses.
C11_ScoreAndStatusMonotone ==
    cpc \in {"secondary", "done"} =>
        \A k \in 1..Len(method_results) :
            LET before == RecordsAfter(k - 1)
                after == RecordsAfter(k)
            IN \A i \in 1..Len(url_records) :
                 /\ after[i].success_score >= before[i].success_score
                 /\ StatusRank(after[i].status)
                       >= StatusRank(before[i].status)

\* a record that was partially successful got a failing result from a later
\* method, and a record reached 'success' before the last method result
C11_Witness ==
    /\ cpc = "done"
    /\ RecordsAfter(Len(method_results)) = url_records
    /\ \E k \in 1..Len(method_results), i \in 1..Len(url_records) :
         /\ RecordsAfter(k - 1)[i].status = "partial_success"
         /\ RecordsAfter(k)[i].attempts = RecordsAfter(k - 1)[i].attempts + 1
         /\ RecordsAfter(k)[i].success_score
               = RecordsAfter(k - 1)[i].success_score
    /\ \E k \in 1..Len(method_results), i \in 1..Len(url_records) :
         /\ RecordsAfter(k - 1)[i].status = "success"
         /\ RecordsAfter(k)[i].attempts = RecordsAfter(k - 1)[i].attempts + 1

\* the entry of EXPECTED_SUCCESS_RATES meant for each primary engine
TableEntry ==
    [SocialBookmarkingEngine |-> "social_bookmarking",
     RSSDistributionEngine |-> "rss_distribution",
     Web2PostingEngine |-> "web2_posting"]

\* C12: after process_url_collection each record's success_score is the sum
\* of the EXPECTED_SUCCESS_RATES weights of its successful methods.
C12_ScoreIsTableSum ==
    cpc = "done" =>
        \A i \in 1..Len(url_records) :
            url_records[i].success_score =
                SumOver(Range(url_records[i].methods_successful),
                        [m \in DOMAIN TableEntry |->
                            EXPECTED_SUCCESS_RATES[TableEntry[m]]])

\* number of submitted URLs for which some method reported success
UrlsWithSuccess ==
    Cardinality({i \in 1..Len(url_records) :
        \E k \in 1..Len(method_results) :
            /\ ~method_results[k].raises
            /\ method_results[k].success[i]})

\* C13: overall_success_rate is the number of submitted URLs for which at
\* least one method reported success over the number of submitted URLs, and
\* 0 when no URL was submitted.
C13_OverallSuccessRate ==
    cpc = "done" =>
        final_results.overall_success_rate =
            IF Len(url_records) > 0
               THEN <<UrlsWithSuccess, Len(url_records)>>
               ELSE <<0, 1>>

\* the (layer, method, URL) executions of the layered strategy
Executed ==
    UNION {{[layer |-> l, method |-> m, url |-> u] :
               m \in Range(strategy_layers[l]) \cap engines,
               u \in Range(strategy_results.layer_results[l].urls)} :
           l \in DOMAIN strategy_results.layer_results}

\* C14: once the enhanced process_url_collection has returned, every (URL,
\* method) pair executed in some layer has at least one recorded attempt.
C14_EveryExecutionRecorded ==
    (epc = "done" /\ enhanced_results.success) =>
        \A e \in Executed :
            \E k \in 1..Len(recorded) :
                /\ recorded[k].url = e.url
                /\ recorded[k].method = e.method

InvalidSubmitted ==
    {i \in 1..Len(submitted_urls) : ~validate_url(submitted_urls[i])}

\* C15: when a submitted batch holds an invalid URL, the campaign still
\* completes, the reported URL count is the number of submitted URLs and the
\* failed count includes the invalid ones.
C15_InvalidUrlsReportedFailed ==
    (epc = "done" /\ InvalidSubmitted # {}) =>
        /\ enhanced_results.success
        /\ enhanced_results.urls_processed = Len(submitted_urls)
        /\ enhanced_results.failed_urls >= Cardinality(InvalidSubmitted)

\* C16: when record_attempt has returned normally, the attempt is a row of
\* the ledger.
C16_NoSilentLoss ==
    (tracker_last.op = "record_attempt"
        /\ tracker_last.returned = "normally") =>
        \E k \in 1..Len(ledger) : ledger[k] = tracker_last.attempt

\* C17: get_method_performance(m, days) never answers from a cache entry
\* that was computed before an attempt of m was recorded.
C17_RecordInvalidatesCache ==
    (tracker_last.op = "get_method_performance"
        /\ tracker_last.from_cache) =>
        tracker_last.missed = 0

\* C18: get_method_performance never answers from a cache entry that was
\* stored more than cache_ttl seconds ago.
C18_NoEntryOlderThanTtl ==
    (tracker_last.op = "get_method_performance"
        /\ tracker_last.from_cache) =>
        tracker_last.age <= cache_ttl

\* C19: get_success_predictions answers 'stable' with confidence 'low'
\* when there are fewer than 3 days of data or no older window, and
\* 'improving' or 'declining' only when there is an older window.
C19_InsufficientDataStableLow ==
    (tracker_last.op = "get_success_predictions"
        /\ tracker_last.returned = "prediction") =>
        LET p == tracker_last.prediction
        IN /\ (p.days_of_data < 3 \/ p.older_days = 0) =>
                  (p.trend = "stable" /\ p.confidence = "low")
           /\ p.trend \in {"improving", "declining"} =>
                  (p.days_of_data > 0 /\ p.older_days > 0)

\* the last call was predict_method_success with no trained model, and it
\* returned
HeuristicReturned ==
    /\ predictor_last.op = "predict_method_success"
    /\ ~predictor_last.trained
    /\ predictor_last.result.returned = "value"

Optimized == predictor_last.op = "optimize_method_combination"

\* the candidate list of the last call names no method twice
DistinctCandidates ==
    \A i, j \in 1..Len(predictor_last.available_methods) :
        i # j => predictor_last.available_methods[i]
                    # predictor_last.available_methods[j]

\* C21: for a non-empty list of different candidates, with or without a
\* budget, a returning optimize_method_combination gives a non-empty list
\* of distinct candidates, each with its predicted probability, in
\* descending order of probability.
C21_RankedByProbability ==
    (Optimized /\ predictor_last.available_methods # << >>
        /\ DistinctCandidates
        /\ predictor_last.result.returned = "value") =>
        /\ LET selected == predictor_last.result.selected
               candidates == predictor_last.available_methods
           IN /\ selected # << >>
              /\ \A i, j \in 1..Len(selected) :
                   i < j =>
                      /\ selected[i].method # selected[j].method
                      /\ selected[i].probability >= selected[j].probability
              /\ \A i \in 1..Len(selected) :
                   \E k \in 1..Len(candidates) :
                      /\ candidates[k] = selected[i].method
                      /\ predictor_last.result.predicted[k]
                            = selected[i].probability

\* C22: predict_method_success with a model loaded always returns a value,
\* and when the model path fails that value is the heuristic prediction.
C22_NeverRaises ==
    (predictor_last.op = "predict_method_success"
        /\ predictor_last.trained) =>
        /\ predictor_last.result.returned = "value"
        /\ predictor_last.model_failed =>
               predictor_last.result.info_method = "heuristic"

\* C30: with a budget the costs of the returned methods add up to at most
\* the budget; without one at most 3 methods are returned.
C30_WithinBudget ==
    (Optimized /\ predictor_last.result.returned = "value") =>
        LET selected == predictor_last.result.selected
        IN IF predictor_last.budget.given
              THEN Sum([i \in 1..Len(selected) |->
                          get_method_cost(selected[i].method)])
                     <= predictor_last.budget.value
              ELSE Len(selected) <= 3

\* the process_tasks calls that have run their query
Started == {w \in Callers : invocations[w].pc # "idle"}

\* row a is handled before row b: lower priority number, or the same
\* priority and created earlier
HandledBefore(rows, a, b) ==
    \/ rows[a].priority < rows[b].priority
    \/ rows[a].priority = rows[b].priority
         /\ rows[a].created_at < rows[b].created_at

\* C23: process_tasks handles the pending tasks by priority, then in the
\* order of creation; with limit L it handles the first min(L, number
\* pending) tasks of that order and leaves every other task as it was.
C23_PriorityThenFifo ==
    \A w \in Started :
        LET inv == invocations[w]
            rows == inv.rows_at_start
            pending_ids == {id \in DOMAIN rows : rows[id].status = "pending"}
            chosen == {inv.tasks[i] : i \in 1..Len(inv.tasks)}
        IN /\ chosen \subseteq pending_ids
           /\ Len(inv.tasks) = Cardinality(chosen)
           /\ Cardinality(chosen)
                 = Min(inv.limit, Cardinality(pending_ids))
           /\ \A i, j \in 1..Len(inv.tasks) :
                 i < j => HandledBefore(rows, inv.tasks[i], inv.tasks[j])
           /\ \A a \in chosen, b \in pending_ids \ chosen :
                 HandledBefore(rows, a, b)
           /\ inv.handled = SubSeq(inv.tasks, 1, Len(inv.handled))
           /\ inv.pc = "done" => inv.handled = inv.tasks
           /\ \A id \in DOMAIN rows \ chosen : task_table[id] = rows[id]

\* a call with limit 1 has finished after handling the task created second,
\* which has the higher priority, and not the task created first
C23_Witness ==
    \E w \in Started :
        /\ invocations[w].pc = "done"
        /\ invocations[w].limit = 1
        /\ invocations[w].handled = <<2>>
        /\ 1 \in DOMAIN invocations[w].rows_at_start
        /\ invocations[w].rows_at_start[1].status = "pending"
        /\ task_table[1].status = "pending"

\* C24: a task is executed at most max_retries times, its retry_count
\* never exceeds max_retries, a task that reached completed or failed stays
\* there, and a finished process_tasks call leaves none of the tasks it
\* handled in 'processing'.
C24_RetryStateMachine ==
    /\ \A id \in DOMAIN task_table :
          /\ executions[id].count <= task_table[id].max_retries
          /\ task_table[id].retry_count <= task_table[id].max_retries
          /\ task_table[id].final_at # Null =>
                task_table[id].status \in {"completed", "failed"}
          /\ (task_table[id].status = "failed"
                 /\ task_table[id].task_type \in processors) =>
                task_table[id].retry_count = task_table[id].max_retries
    /\ \A w \in Started :
          invocations[w].pc = "done" =>
              \A i \in 1..Len(invocations[w].handled) :
                  task_table[invocations[w].handled[i]].status
                      # "processing"

\* C25: no task is executed by two process_tasks calls that both selected
\* it while it was pending.
C25_NoDoubleExecution ==
    \A id \in DOMAIN executions : Cardinality(executions[id].by) <= 1

\* C29: a cleanup run removes every task that reached completed or failed
\* more than keep_days before it, and removes nothing else.
C29_CleanupRemovesOldFinalTasks ==
    task_last.op = "cleanup_completed_tasks" =>
        /\ \A id \in DOMAIN task_table :
              ~ /\ task_table[id].status \in {"completed", "failed"}
                /\ task_table[id].final_at # Null
                /\ task_table[id].final_at < task_last.cutoff_date
        /\ \A row \in task_last.removed :
              /\ row.status \in {"completed", "failed"}
              /\ row.final_at < task_last.cutoff_date

\* the (date, method) pairs of the attempts
SummaryKeys ==
    {<<attempt.date, attempt.method>> : attempt \in RecordedAttempts}

\* the indexing_attempts rows of one (date, method)
AttemptsOf(key) ==
    {k \in 1..Len(attempt_rows) :
        <<attempt_rows[k].date, attempt_rows[k].method>> = key}

\* C26: once the record_attempt calls of all workers have returned without
\* a database error, the daily summary of every (date, method) counts the
\* rows of indexing_attempts: total_attempts is their number,
\* successful_attempts the number of successful ones.
C26_SummaryMatchesLedger ==
    (\A w \in RecorderWorkers :
        recorders[w].pc = "idle" /\ ~recorders[w].logged_error) =>
        \A key \in SummaryKeys :
            LET summary ==
                    IF key \in DOMAIN summary_rows THEN summary_rows[key]
                    ELSE [total_attempts |-> 0, successful_attempts |-> 0]
            IN /\ summary.total_attempts = Cardinality(AttemptsOf(key))
               /\ summary.successful_attempts =
                      Cardinality({k \in AttemptsOf(key) :
                                      attempt_rows[k].success})
               /\ summary.successful_attempts <= summary.total_attempts

\* C27: process_batch returns one result per URL, in the order of the URLs;
\* a URL whose pass raised has a failure result; total_attempts grows by
\* the number of URLs.
C27_OneResultPerUrl ==
    batch_last.op = "process_batch" =>
        /\ Len(batch_last.results) = Len(batch_last.urls)
        /\ \A i \in 1..Len(batch_last.urls) :
              /\ i <= Len(batch_last.results)
              /\ batch_last.results[i].url = batch_last.urls[i]
              /\ (batch_last.pass[i].process_url
                      \in {"raises", "no_success_key"}
                    \/ batch_last.pass[i].delay_raises) =>
                     batch_last.results[i].kind = "error"
        /\ base_metrics.total_attempts =
              batch_last.before.total_attempts + Len(batch_last.urls)

\* C28: the counters process_url_batch returns satisfy
\* processed = successful + failed = number of URLs.
C28_CountersConsistent ==
    (celery_last.op = "process_url_batch"
        /\ celery_last.outcome.returned = "value") =>
        LET results == celery_last.outcome.results
        IN /\ results.processed = results.successful + results.failed
           /\ results.processed = Len(celery_last.urls)

====
